---- MODULE Spec2Model ----
(***************************************************************************)
(* Job-lifecycle core of the PrinterSync agent (src/main_mac.py):          *)
(* the Firebase job listener callback (on_job_added), the job handler      *)
(* (PrinterApp.process_job), the worker thread                             *)
(* (PrinterApp.download_and_print), the artifact fetcher (download_file)   *)
(* and the print dispatcher (print_pdf / auto_print_pdf).                  *)
(***************************************************************************)
EXTENDS Integers, Sequences, FiniteSets, TLC

(* ---------------------------------------------------------------------- *)
(* Bounds                                                                  *)
(* ---------------------------------------------------------------------- *)

\* number of events the listener delivers to on_job_added in one run
MaxDeliveries == 2

\* largest declared content-length of a fetch, in bytes
MaxBytes == 4

\* largest number of chunks one response body is received in
MaxChunks == 4

\* largest length of one chunk, in bytes
MaxChunkLen == 2

\* number of times the operator presses Connect in one run
MaxConnects == 2

(* ---------------------------------------------------------------------- *)
(* Values                                                                  *)
(* ---------------------------------------------------------------------- *)

\* job keys under users/<user>/jobs
JobKeys == {"J1", "J2"}

\* Python's None, and the result of dict.get on an absent key
None == "None"

\* a dict with no keys; also the source's view of a job that does not exist
NoRecord == [k \in {} |-> None]

\* status values a producer stores in a job record
DataStatuses == {"pending", "processing", "canceled"}

\* values of the 'printer' field of a job record ('' = use the default printer)
Printers == {"HP-1", ""}

\* job records a producer upserts: pending jobs for each printer, jobs in
\* another status, and a partial record (no status key)
JobRecords ==
    { [status |-> "pending", fileUrl |-> "http://x/doc.pdf", printer |-> p] :
        p \in Printers }
    \cup { [status |-> s, fileUrl |-> "http://x/doc.pdf", printer |-> "HP-1"] :
        s \in DataStatuses }
    \cup { [printer |-> "HP-1"] }

\* dict.get(key, default)
Get(d, key, default) == IF key \in DOMAIN d THEN d[key] ELSE default

\* Reference.update(payload): merge the payload's keys into the stored record
Update(rec, payload) ==
    [k \in (DOMAIN rec) \cup (DOMAIN payload) |->
        IF k \in DOMAIN payload THEN payload[k] ELSE rec[k]]

\* str.lstrip('/') on a path given as the sequence of its segments
RECURSIVE lstrip(_)
lstrip(path) ==
    IF path # <<>> /\ Head(path) = "/" THEN lstrip(Tail(path)) ELSE path

\* the path of a put on the job j, relative to users/<user>/jobs
JobPath(j) == <<"/", j>>

\* the path of the whole collection
RootPath == <<"/">>

\* the event a producer's set() of the record of job j produces
PutEvent(j, data) ==
    [event_type |-> "put", path |-> JobPath(j), kind |-> "dict", data |-> data]

\* events that are not the put of one job record: the snapshot of the whole
\* collection, the deletion of a job, and a patch of a job
OtherEvents ==
    { [event_type |-> "put", path |-> RootPath, kind |-> "dict",
       data |-> [status |-> "pending"]] }
    \cup { [event_type |-> "put", path |-> JobPath(j), kind |-> "none",
            data |-> NoRecord] : j \in JobKeys }
    \cup { [event_type |-> "patch", path |-> JobPath(j), kind |-> "dict",
            data |-> [status |-> "pending"]] : j \in JobKeys }

NoEvent == [event_type |-> None, path |-> <<>>, kind |-> "none", data |-> NoRecord]

\* truthiness of event.data: None and the empty dict are falsy
Truthy(e) == e.kind # "none" /\ ~(e.kind = "dict" /\ DOMAIN e.data = {})

(* ---------------------------------------------------------------------- *)
(* State                                                                   *)
(* ---------------------------------------------------------------------- *)

VARIABLES
    user_id,     \* PrinterApp.user_id: the validated token, or None
    listener,    \* PrinterApp.listener: "none", or the state of the object it holds
    subs,        \* number of open subscriptions on the job collection
    source,      \* users/<user>/jobs at the source: job key -> stored record
    jobs,        \* PrinterApp.jobs, the in-memory job registry
    workers,     \* the download_and_print threads started so far
    writes,      \* job key -> payloads the engine has written, in order
    event,       \* the event last handed to on_job_added
    delivered,   \* number of events handed to on_job_added
    propagated,  \* boundaries an exception has escaped from
    total_size,  \* download_file: declared content-length
    chunks,      \* download_file: number of chunks received
    downloaded,  \* download_file: bytes received
    progress,    \* download_file: arguments passed to progress_callback
    fetch_pc,    \* download_file: "idle", "streaming", "done" or "raised"
    job_in,      \* one dispatch: the job record download_and_print was given
    settings_in, \* one dispatch: the printer_settings dict built from it
    options,     \* one dispatch: the options dict handed to conn.printFile
    submitted,   \* one dispatch: conn.printFile was called
    print_result,\* one dispatch: what print_pdf returned, or "raise"
    print_pc,    \* one dispatch: "idle", "built" or "returned"
    connects,    \* the connect_to_printer threads on_connect has started
    connected,   \* users/<user>/connected at the source, None before a write
    printers_src,\* users/<user>/printers has been written
    token_file   \* token.txt: the token saved, or None

connVars == <<user_id, listener, subs>>
engineVars == <<source, jobs, workers, writes, event, delivered, propagated>>
fetchVars == <<total_size, chunks, downloaded, progress, fetch_pc>>
sessVars == <<connects, connected, printers_src, token_file>>
printVars == <<job_in, settings_in, options, submitted, print_result, print_pc>>
vars == <<user_id, listener, subs,
          source, jobs, workers, writes, event, delivered, propagated,
          total_size, chunks, downloaded, progress, fetch_pc,
          job_in, settings_in, options, submitted, print_result, print_pc,
          connects, connected, printers_src, token_file>>

(* ---------------------------------------------------------------------- *)
(* Print dispatcher                                                        *)
(* ---------------------------------------------------------------------- *)

\* what the print subsystem does during one dispatch: whether each
\* cups.Connection() succeeds, whether any printer is installed, whether
\* printFile accepts the job, and whether the downloaded file is still there
PrintEnvs ==
    [conn1 : BOOLEAN, printers : BOOLEAN, conn2 : BOOLEAN, printFile : BOOLEAN,
     exists : BOOLEAN]

\* auto_print_pdf(file_path, settings): "True", "False", or "raise" when an
\* exception leaves the function
auto_print_pdf(settings, env) ==
    LET printer_name == Get(settings, "namePrinter", "")
    IN  IF printer_name = "" /\ ~env.conn1 THEN "raise"
        ELSE IF printer_name = "" /\ ~env.printers THEN "False"
        ELSE IF ~env.conn2 \/ ~env.printFile THEN "False"
        ELSE "True"

\* print_pdf(settings, file_path)
print_pdf(settings, env) ==
    IF ~env.exists THEN "False" ELSE auto_print_pdf(settings, env)

\* the settings dict built with no defaults of the worker's own
printer_settings_NoDefaults(job_data) ==
    [namePrinter |-> Get(job_data, "printer", ""),
     colorMode   |-> Get(job_data, "colorMode", ""),
     orientation |-> Get(job_data, "orientation", ""),
     paperSize   |-> Get(job_data, "paperSize", "")]

\* the settings dict download_and_print builds from the job record
printer_settings(job_data) ==
    [namePrinter |-> Get(job_data, "printer", ""),
     colorMode   |-> Get(job_data, "colorMode", "color"),
     orientation |-> Get(job_data, "orientation", "portrait"),
     paperSize   |-> Get(job_data, "paperSize", "A4")]

\* str.lower() on the option values that occur
Lower(str) ==
    CASE str = "Color" -> "color"
      [] str = "Grayscale" -> "grayscale"
      [] str = "Portrait" -> "portrait"
      [] str = "Landscape" -> "landscape"
      [] OTHER -> str

\* the options dict auto_print_pdf builds for conn.printFile
print_options(st) ==
    LET color_mode  == Lower(Get(st, "colorMode", ""))
        orientation == Lower(Get(st, "orientation", ""))
        paper_size  == Get(st, "paperSize", "")
        color == IF color_mode = "color" THEN "ColorModel" :> "RGB"
                 ELSE IF color_mode = "grayscale" THEN "ColorModel" :> "Gray"
                 ELSE NoRecord
        orient == IF orientation = "portrait" THEN "orientation-requested" :> "3"
                  ELSE IF orientation = "landscape" THEN "orientation-requested" :> "4"
                  ELSE NoRecord
        media == IF paper_size # "" THEN "media" :> paper_size ELSE NoRecord
    IN  Update(Update(color, orient), media)

\* auto_print_pdf reaches conn.printFile: the file exists, a printer name is
\* given or found, and the second cups.Connection() succeeds
PrintFileCalled(st, env) ==
    /\ env.exists
    /\ Get(st, "namePrinter", "") # "" \/ (env.conn1 /\ env.printers)
    /\ env.conn2

(* ---------------------------------------------------------------------- *)
(* Status write-back                                                       *)
(* ---------------------------------------------------------------------- *)

\* payload of the claim write in process_job
ProcessingPayload == [status |-> "processing"]

\* payload of the write after a successful print
CompletedPayload == [status |-> "completed"]

\* payload of the write after print_pdf returned False
PrintFailedPayload == [status |-> "error", error |-> "Printing failed"]

\* payload of the write in an except handler, e the text of the exception
ErrorPayload(e) == [status |-> "error", error |-> e]

\* db.reference(users/<user>/jobs/<job_key>).update(payload), when it
\* succeeds: the record stored at the source afterwards
Written(src, job_key, payload) ==
    [src EXCEPT ![job_key] = Update(@, payload)]

\* the same write, added to the record of what the engine wrote
Logged(wr, job_key, payload) ==
    [wr EXCEPT ![job_key] = Append(@, payload)]

(* ---------------------------------------------------------------------- *)
(* Job handler                                                             *)
(* ---------------------------------------------------------------------- *)

\* the thread process_job starts: download_and_print at its first statement
NewWorker(job_key, job_data) ==
    [job_key |-> job_key, job_data |-> job_data, pc |-> "download",
     success |-> None, e |-> None, printed |-> FALSE, wrote |-> NoRecord]

\* where process_job raises: nowhere, while it builds the job card ("ui"),
\* in the write of 'processing' ("write"), or in Thread.start ("thread")
ProcessFailures == {"none", "ui", "write", "thread"}

\* process_job with the thread started before the write of 'processing'
process_job_StartBeforeWrite(src, job_key, job_data, fail, errOk) ==
    LET started == fail \in {"none", "write"}
        claimed == fail \in {"none", "thread"}
        raised  == fail # "none"
        src1 == IF claimed THEN Written(src, job_key, ProcessingPayload) ELSE src
        wr1  == IF claimed THEN Logged(writes, job_key, ProcessingPayload) ELSE writes
    IN  /\ source' = IF raised /\ errOk
                        THEN Written(src1, job_key, ErrorPayload(fail)) ELSE src1
        /\ writes' = IF raised /\ errOk
                        THEN Logged(wr1, job_key, ErrorPayload(fail)) ELSE wr1
        /\ workers' = IF started
                         THEN Append(workers, NewWorker(job_key, job_data))
                         ELSE workers
        /\ propagated' = IF raised /\ ~errOk
                            THEN propagated \cup {"on_job_added"} ELSE propagated
        /\ UNCHANGED jobs

\* process_job(user, job_key, job_data), src the source as the event left it;
\* errOk: the write in the except handler succeeds
process_job(src, job_key, job_data, fail, errOk) ==
    LET claimed == fail \in {"none", "thread"}
        raised  == fail # "none"
        src1 == IF claimed THEN Written(src, job_key, ProcessingPayload) ELSE src
        wr1  == IF claimed THEN Logged(writes, job_key, ProcessingPayload) ELSE writes
    IN  /\ source' = IF raised /\ errOk
                        THEN Written(src1, job_key, ErrorPayload(fail)) ELSE src1
        /\ writes' = IF raised /\ errOk
                        THEN Logged(wr1, job_key, ErrorPayload(fail)) ELSE wr1
        /\ workers' = IF fail = "none"
                         THEN Append(workers, NewWorker(job_key, job_data))
                         ELSE workers
        /\ propagated' = IF raised /\ ~errOk
                            THEN propagated \cup {"on_job_added"} ELSE propagated
        /\ UNCHANGED jobs

\* on_job_added's test without the comparison of the status with 'pending'
Accepts_AnyStatus(e) ==
    /\ e.event_type = "put"
    /\ e.path # RootPath
    /\ Truthy(e)
    /\ e.kind = "dict"

\* the test on_job_added makes before it calls process_job
Accepts(e) ==
    /\ e.event_type = "put"
    /\ e.path # RootPath
    /\ Truthy(e)
    /\ e.kind = "dict"
    /\ Get(e.data, "status", None) = "pending"

\* on_job_added(event), src the source as the event left it
on_job_added(src, e, fail, errOk) ==
    /\ subs > 0
    /\ delivered < MaxDeliveries
    /\ delivered' = delivered + 1
    /\ event' = e
    /\ IF Accepts(e)
          THEN process_job(src, Head(lstrip(e.path)), e.data, fail, errOk)
          ELSE /\ source' = src
               /\ UNCHANGED <<jobs, workers, writes, propagated>>

(* ---------------------------------------------------------------------- *)
(* Events of the job collection                                            *)
(* ---------------------------------------------------------------------- *)

\* a producer sets the record of job j; the listener hands the put to
\* on_job_added
Upsert(j, data) ==
    /\ \E fail \in ProcessFailures, errOk \in BOOLEAN :
          on_job_added([source EXCEPT ![j] = data], PutEvent(j, data), fail, errOk)
    /\ UNCHANGED <<connVars, fetchVars, printVars, sessVars>>

\* the source delivers its last event once more (at-least-once delivery)
Redeliver ==
    /\ event # NoEvent
    /\ \E fail \in ProcessFailures, errOk \in BOOLEAN :
          on_job_added(source, event, fail, errOk)
    /\ UNCHANGED <<connVars, fetchVars, printVars, sessVars>>

\* the source after an event that is not the put of one job record
AfterOther(e) ==
    IF e.path = RootPath THEN source
    ELSE LET j == Head(lstrip(e.path))
         IN  IF e.kind = "none" THEN [source EXCEPT ![j] = NoRecord]
             ELSE [source EXCEPT ![j] = Update(@, e.data)]

\* the listener hands a snapshot of the collection, a deletion or a patch to
\* on_job_added
DeliverOther(e) ==
    /\ \E fail \in ProcessFailures, errOk \in BOOLEAN :
          on_job_added(AfterOther(e), e, fail, errOk)
    /\ UNCHANGED <<connVars, fetchVars, printVars, sessVars>>

\* a producer sets the record of job j while no listener is subscribed: no
\* event is delivered for it
ProducerPut(j, data) ==
    /\ subs = 0
    /\ source' = [source EXCEPT ![j] = data]
    /\ UNCHANGED <<jobs, workers, writes, event, delivered, propagated,
                   connVars, fetchVars, printVars, sessVars>>

\* the first event of a subscription: a put at '/' whose data is the whole
\* collection as it stands (None when it is empty)
Snapshot ==
    LET present == { j \in JobKeys : source[j] # NoRecord }
    IN  [event_type |-> "put", path |-> RootPath,
         kind |-> IF present = {} THEN "none" ELSE "dict",
         data |-> [j \in present |-> source[j]]]

\* the listener hands the initial snapshot to on_job_added
DeliverSnapshot ==
    /\ delivered = 0
    /\ \E fail \in ProcessFailures, errOk \in BOOLEAN :
          on_job_added(source, Snapshot, fail, errOk)
    /\ UNCHANGED <<connVars, fetchVars, printVars, sessVars>>

\* the event of a set() of the status field alone: a put at
\* /<job>/status whose data is a string
FieldEvent(j, status) ==
    [event_type |-> "put", path |-> JobPath(j) \o <<"/", "status">>,
     kind |-> "str", data |-> [value |-> status]]

\* a producer sets the status of the stored job j to 'pending'; the listener
\* hands the put of the field to on_job_added
FieldUpdate(j) ==
    /\ source[j] # NoRecord
    /\ \E fail \in ProcessFailures, errOk \in BOOLEAN :
          on_job_added([source EXCEPT ![j] = Update(@, [status |-> "pending"])],
                       FieldEvent(j, "pending"), fail, errOk)
    /\ UNCHANGED <<connVars, fetchVars, printVars, sessVars>>

(* ---------------------------------------------------------------------- *)
(* Worker thread                                                           *)
(* ---------------------------------------------------------------------- *)

\* a worker that has neither returned nor died
Active(w) == w.pc \notin {"done", "crashed"}

\* the worker enters the except handler of download_and_print with error e
Raise(i, err) ==
    workers' = [workers EXCEPT ![i].pc = "except", ![i].e = err]

\* download_and_print up to the return of download_pdf_from_url: the download
\* raises ("timeout") or it succeeds
WorkerDownload(i) ==
    /\ workers[i].pc = "download"
    /\ \E outcome \in {"ok", "timeout"} :
          IF outcome = "ok"
             THEN workers' = [workers EXCEPT ![i].pc = "print"]
             ELSE Raise(i, outcome)
    /\ UNCHANGED <<source, jobs, writes, event, delivered, propagated,
                   connVars, fetchVars, printVars, sessVars>>

\* download_and_print from the 'Printing...' label to the return of print_pdf
WorkerPrint(i) ==
    /\ workers[i].pc = "print"
    /\ \E env \in PrintEnvs :
          LET r == print_pdf(printer_settings(workers[i].job_data), env)
          IN  IF r = "raise"
                 THEN workers' = [workers EXCEPT ![i].pc = "except",
                                                 ![i].e = "cups",
                                                 ![i].printed = TRUE]
                 ELSE workers' = [workers EXCEPT ![i].pc = "report",
                                                 ![i].success = r,
                                                 ![i].printed = TRUE]
    /\ UNCHANGED <<source, jobs, writes, event, delivered, propagated,
                   connVars, fetchVars, printVars, sessVars>>

\* the payload download_and_print writes for the result of print_pdf
ResultPayload(success) ==
    IF success = "True" THEN CompletedPayload ELSE PrintFailedPayload

\* download_and_print after print_pdf returned: the status write raises
\* ("write") or the status is written
WorkerReport(i) ==
    /\ workers[i].pc = "report"
    /\ \E outcome \in {"ok", "write"} :
          IF outcome = "ok"
             THEN /\ source' = Written(source, workers[i].job_key,
                                       ResultPayload(workers[i].success))
                  /\ writes' = Logged(writes, workers[i].job_key,
                                      ResultPayload(workers[i].success))
                  /\ workers' = [workers EXCEPT
                                   ![i].pc = "done",
                                   ![i].wrote = ResultPayload(workers[i].success)]
             ELSE /\ Raise(i, outcome)
                  /\ UNCHANGED <<source, writes>>
    /\ UNCHANGED <<jobs, event, delivered, propagated, connVars, fetchVars, printVars, sessVars>>

\* the except handler of download_and_print: the status write raises and the
\* exception leaves the thread, or the error is written
WorkerExcept(i) ==
    /\ workers[i].pc = "except"
    /\ \E outcome \in {"ok", "write"} :
          IF outcome = "ok"
             THEN /\ source' = Written(source, workers[i].job_key,
                                       ErrorPayload(workers[i].e))
                  /\ writes' = Logged(writes, workers[i].job_key,
                                      ErrorPayload(workers[i].e))
                  /\ workers' = [workers EXCEPT
                                   ![i].pc = "done",
                                   ![i].wrote = ErrorPayload(workers[i].e)]
                  /\ UNCHANGED propagated
             ELSE /\ workers' = [workers EXCEPT ![i].pc = "crashed"]
                  /\ propagated' = propagated \cup {"download_and_print"}
                  /\ UNCHANGED <<source, writes>>
    /\ UNCHANGED <<jobs, event, delivered, connVars, fetchVars, printVars, sessVars>>

(* ---------------------------------------------------------------------- *)
(* Connection                                                              *)
(* ---------------------------------------------------------------------- *)

\* start_job_listener(): close the listener held, then subscribe
start_job_listener ==
    LET closed == IF listener = "open" THEN subs - 1 ELSE subs
    IN  /\ subs' = closed + 1
        /\ listener' = "open"

\* connect_to_printer(token) run by one thread with no other connect beside
\* it and every step succeeding; found: a user with this token exists
connect_to_printer(token, found) ==
    /\ IF found
          THEN /\ user_id' = token
               /\ connected' = "True"
               /\ token_file' = token
               /\ printers_src' = TRUE
               /\ start_job_listener
          ELSE UNCHANGED <<user_id, listener, subs, connected, token_file,
                           printers_src>>
    /\ UNCHANGED <<engineVars, fetchVars, printVars, connects>>

\* tokens the operator may enter: two registered devices, an unknown token,
\* and the empty entry
Registered == {"T1", "T2"}
Tokens == Registered \cup {"X9", ""}

\* on_connect(): an empty entry shows an error; otherwise a thread is started
\* on connect_to_printer(token)
on_connect(token) ==
    /\ Len(connects) < MaxConnects
    /\ connects' = IF token = "" THEN connects
                   ELSE Append(connects, [token |-> token, pc |-> "lookup"])
    /\ UNCHANGED <<connected, printers_src, token_file,
                   connVars, engineVars, fetchVars, printVars>>

\* what the query for the token gives: a snapshot, nothing, or an exception
LookupResults(token) ==
    (IF token \in Registered THEN {"found"} ELSE {"missing"}) \cup {"raise"}

\* connect_to_printer without its early return on an unknown token
ConnLookup_NoReturn(i, result, ok) ==
    /\ connects[i].pc = "lookup"
    /\ result \in LookupResults(connects[i].token)
    /\ IF result = "raise"
          THEN /\ connects' = [connects EXCEPT ![i].pc = "failed"]
               /\ UNCHANGED <<user_id, connected>>
          ELSE /\ connects' = [connects EXCEPT ![i].pc = "save"]
               /\ user_id' = connects[i].token
               /\ connected' = IF ok THEN "True" ELSE connected
    /\ UNCHANGED <<listener, subs, printers_src, token_file,
                   engineVars, fetchVars, printVars>>

\* connect_to_printer up to update_connection_status: the query by token, the
\* return on an unknown token, self.user_id = token, and the write of
\* connected = True (ok: the write succeeds; its errors are only logged)
ConnLookup(i, result, ok) ==
    /\ connects[i].pc = "lookup"
    /\ result \in LookupResults(connects[i].token)
    /\ IF result = "found"
          THEN /\ connects' = [connects EXCEPT ![i].pc = "save"]
               /\ user_id' = connects[i].token
               /\ connected' = IF ok THEN "True" ELSE connected
          ELSE /\ connects' = [connects EXCEPT
                                 ![i].pc = IF result = "missing" THEN "invalid"
                                           ELSE "failed"]
               /\ UNCHANGED <<user_id, connected>>
    /\ UNCHANGED <<listener, subs, printers_src, token_file,
                   engineVars, fetchVars, printVars>>

\* save_token(token) and refresh_printers(): each logs its own errors
\* (saved, listed: the write succeeds)
ConnSave(i, saved, listed) ==
    /\ connects[i].pc = "save"
    /\ connects' = [connects EXCEPT ![i].pc = "close"]
    /\ token_file' = IF saved THEN connects[i].token ELSE token_file
    /\ printers_src' = IF listed THEN TRUE ELSE printers_src
    /\ UNCHANGED <<connected, connVars, engineVars, fetchVars, printVars>>

\* start_job_listener up to the user lookup: close the listener held; ok: the
\* lookup succeeds (its error is logged and start_job_listener returns)
ConnClose(i, ok) ==
    /\ connects[i].pc = "close"
    /\ connects' = [connects EXCEPT ![i].pc = IF ok THEN "subscribe" ELSE "done"]
    /\ subs' = IF listener = "open" THEN subs - 1 ELSE subs
    /\ listener' = IF listener = "open" THEN "closed" ELSE listener
    /\ UNCHANGED <<user_id, engineVars, fetchVars, printVars,
                   connected, printers_src, token_file>>

\* self.listener = jobs_ref.listen(on_job_added)
ConnSubscribe(i) ==
    /\ connects[i].pc = "subscribe"
    /\ connects' = [connects EXCEPT ![i].pc = "done"]
    /\ subs' = subs + 1
    /\ listener' = "open"
    /\ UNCHANGED <<user_id, engineVars, fetchVars, printVars,
                   connected, printers_src, token_file>>

(* ---------------------------------------------------------------------- *)
(* Artifact fetcher                                                        *)
(* ---------------------------------------------------------------------- *)

\* downloaded / total_size, kept as the pair of its operands
Fraction(num, den) == <<num, den>>

\* download_file up to the read of content-length: the request raises or the
\* status is not 200 (ok = FALSE), or the headers declare total bytes
FetchBegin(ok, total) ==
    /\ fetch_pc = "idle"
    /\ fetch_pc' = IF ok THEN "streaming" ELSE "raised"
    /\ total_size' = IF ok THEN total ELSE total_size
    /\ UNCHANGED <<chunks, downloaded, progress, connVars, engineVars, printVars, sessVars>>

\* the loop body with the callback made before the chunk is counted
FetchChunk_ReportBeforeCount(ok, len) ==
    /\ fetch_pc = "streaming"
    /\ chunks < MaxChunks
    /\ IF ok
          THEN /\ chunks' = chunks + 1
               /\ downloaded' = downloaded + len
               /\ progress' = IF total_size > 0
                                 THEN Append(progress,
                                             Fraction(downloaded, total_size))
                                 ELSE progress
               /\ UNCHANGED fetch_pc
          ELSE /\ fetch_pc' = "raised"
               /\ UNCHANGED <<chunks, downloaded, progress>>
    /\ UNCHANGED <<total_size, connVars, engineVars, printVars, sessVars>>

\* one turn of the loop over iter_content: a chunk of len bytes is written,
\* or (ok = FALSE) the read or the write raises
FetchChunk(ok, len) ==
    /\ fetch_pc = "streaming"
    /\ chunks < MaxChunks
    /\ IF ok
          THEN /\ chunks' = chunks + 1
               /\ downloaded' = downloaded + len
               /\ progress' = IF total_size > 0
                                 THEN Append(progress,
                                             Fraction(downloaded + len, total_size))
                                 ELSE progress
               /\ UNCHANGED fetch_pc
          ELSE /\ fetch_pc' = "raised"
               /\ UNCHANGED <<chunks, downloaded, progress>>
    /\ UNCHANGED <<total_size, connVars, engineVars, printVars, sessVars>>

\* iter_content is exhausted: download_file returns
FetchEnd ==
    /\ fetch_pc = "streaming"
    /\ fetch_pc' = "done"
    /\ UNCHANGED <<total_size, chunks, downloaded, progress, connVars, engineVars, printVars, sessVars>>

(* ---------------------------------------------------------------------- *)
(* One dispatch, with the print options                                    *)
(* ---------------------------------------------------------------------- *)

\* marks a key the job record does not have
Absent == "<absent>"

\* a dict with the key k when the value is given
Field(k, v) == IF v = Absent THEN NoRecord ELSE k :> v

\* values of the option fields of a job record, recognized and not
ColorModes == {Absent, "color", "grayscale", "Grayscale", "sepia"}
Orientations == {Absent, "portrait", "landscape", "diagonal"}
PaperSizes == {Absent, "A4", "Letter", ""}
CopyCounts == {Absent, "1", "2"}

\* job records with every combination of present and absent option fields
DispatchRecords ==
    { Update(Update(Update(Update(Field("printer", p), Field("colorMode", c)),
                           Field("orientation", o)),
                    Field("paperSize", z)),
             Field("copies", n)) :
        p \in Printers, c \in ColorModes, o \in Orientations,
        z \in PaperSizes, n \in CopyCounts }

\* download_and_print builds printer_settings from its job record
BuildSettings(job_data) ==
    /\ print_pc = "idle"
    /\ print_pc' = "built"
    /\ job_in' = job_data
    /\ settings_in' = printer_settings(job_data)
    /\ UNCHANGED <<options, submitted, print_result, connVars, engineVars, fetchVars, sessVars>>

\* success = print_pdf(printer_settings, local_file)
Dispatch(env) ==
    /\ print_pc = "built"
    /\ print_pc' = "returned"
    /\ print_result' = print_pdf(settings_in, env)
    /\ submitted' = PrintFileCalled(settings_in, env)
    /\ options' = IF PrintFileCalled(settings_in, env)
                     THEN print_options(settings_in) ELSE NoRecord
    /\ UNCHANGED <<job_in, settings_in, connVars, engineVars, fetchVars, sessVars>>

(* ---------------------------------------------------------------------- *)
(* Specifications                                                          *)
(* ---------------------------------------------------------------------- *)

Init ==
    /\ user_id = None
    /\ listener = "none"
    /\ subs = 0
    /\ source = [j \in JobKeys |-> NoRecord]
    /\ jobs = NoRecord
    /\ workers = <<>>
    /\ writes = [j \in JobKeys |-> <<>>]
    /\ event = NoEvent
    /\ delivered = 0
    /\ propagated = {}
    /\ total_size = 0
    /\ chunks = 0
    /\ downloaded = 0
    /\ progress = <<>>
    /\ fetch_pc = "idle"
    /\ job_in = NoRecord
    /\ settings_in = NoRecord
    /\ options = NoRecord
    /\ submitted = FALSE
    /\ print_result = None
    /\ print_pc = "idle"
    /\ connects = <<>>
    /\ connected = None
    /\ printers_src = FALSE
    /\ token_file = None

Next ==
    \/ \E found \in BOOLEAN : connect_to_printer("T1", found)
    \/ \E j \in JobKeys, data \in JobRecords : Upsert(j, data)
    \/ Redeliver
    \/ \E e \in OtherEvents : DeliverOther(e)
    \/ \E i \in 1..Len(workers) : WorkerDownload(i)
    \/ \E i \in 1..Len(workers) : WorkerPrint(i)
    \/ \E i \in 1..Len(workers) : WorkerReport(i)
    \/ \E i \in 1..Len(workers) : WorkerExcept(i)

\* the job pipeline: connection, event delivery and the worker threads
Spec == Init /\ [][Next]_vars

\* a step in which no write to the source raises: process_job's write of
\* 'processing', the worker's write of its result, and the writes in the two
\* except handlers all succeed
WritesSucceed ==
    /\ propagated' = propagated
    /\ \A j \in JobKeys : writes'[j] # Append(writes[j], ErrorPayload("write"))
    /\ \A i \in DOMAIN workers :
          ~(workers[i].pc = "report" /\ workers'[i].pc = "except")

NextLive ==
    \/ \E found \in BOOLEAN : connect_to_printer("T1", found)
    \/ \E j \in JobKeys, data \in JobRecords : Upsert(j, data) /\ WritesSucceed
    \/ Redeliver /\ WritesSucceed
    \/ \E e \in OtherEvents : DeliverOther(e) /\ WritesSucceed
    \/ \E i \in 1..Len(workers) : WorkerDownload(i)
    \/ \E i \in 1..Len(workers) : WorkerPrint(i)
    \/ \E i \in 1..Len(workers) : WorkerReport(i) /\ WritesSucceed
    \/ \E i \in 1..Len(workers) : WorkerExcept(i) /\ WritesSucceed

\* the next statement of worker thread i, its write succeeding
WorkerStep(i) ==
    /\ i \in DOMAIN workers
    /\ \/ WorkerDownload(i)
       \/ WorkerPrint(i)
       \/ WorkerReport(i)
       \/ WorkerExcept(i)
    /\ WritesSucceed

\* the job pipeline when source writes succeed, download and dispatch return
\* or raise, and every started thread keeps being scheduled
SpecLive ==
    /\ Init
    /\ [][NextLive]_vars
    /\ \A i \in 1..MaxDeliveries : WF_vars(WorkerStep(i))

\* the events of one subscription: records stored before it, the snapshot as
\* its first event, then puts, field updates, deletions and patches
NextFeed ==
    \/ \E j \in JobKeys, data \in JobRecords : ProducerPut(j, data)
    \/ subs = 0 /\ connect_to_printer("T1", TRUE)
    \/ DeliverSnapshot
    \/ delivered > 0 /\ \E j \in JobKeys, data \in JobRecords : Upsert(j, data)
    \/ delivered > 0 /\ \E j \in JobKeys : FieldUpdate(j)
    \/ delivered > 0 /\ \E e \in OtherEvents : DeliverOther(e)

\* the job collection and its listener; the source does deliver the snapshot
\* of a subscription
SpecFeed ==
    /\ Init
    /\ [][NextFeed]_vars
    /\ WF_vars(DeliverSnapshot)

NextFetch ==
    \/ \E ok \in BOOLEAN, total \in 0..MaxBytes : FetchBegin(ok, total)
    \/ \E ok \in BOOLEAN, len \in 1..MaxChunkLen : FetchChunk(ok, len)
    \/ FetchEnd

\* one call of download_file
SpecFetch == Init /\ [][NextFetch]_vars

NextPrint ==
    \/ \E job_data \in DispatchRecords : BuildSettings(job_data)
    \/ \E env \in PrintEnvs : Dispatch(env)

\* one dispatch of a downloaded job: settings, options, print_pdf
SpecPrint == Init /\ [][NextPrint]_vars

NextConnect ==
    \/ \E token \in Tokens : on_connect(token)
    \/ \E i \in 1..Len(connects), result \in {"found", "missing", "raise"},
          ok \in BOOLEAN : ConnLookup(i, result, ok)
    \/ \E i \in 1..Len(connects), saved \in BOOLEAN, listed \in BOOLEAN :
          ConnSave(i, saved, listed)
    \/ \E i \in 1..Len(connects), ok \in BOOLEAN : ConnClose(i, ok)
    \/ \E i \in 1..Len(connects) : ConnSubscribe(i)

\* the connect_to_printer threads, step by step and interleaved
SpecConnect == Init /\ [][NextConnect]_vars

(* ---------------------------------------------------------------------- *)
(* Properties                                                              *)
(* ---------------------------------------------------------------------- *)

\* the status stored in a record, None when it has none
Status(rec) == Get(rec, "status", None)

\* the threads working on job j that have not terminated
ActiveFor(j) == { i \in DOMAIN workers : workers[i].job_key = j /\ Active(workers[i]) }

\* number of 'processing' payloads in a sequence of written payloads
ProcessingWrites(wr) == Cardinality({ k \in DOMAIN wr : wr[k].status = "processing" })

\* the statuses the data model calls terminal
Terminal == {"completed", "failed", "canceled"}

\* the status enum of the data model
StatusEnum == {"pending", "processing", "completed", "failed", "canceled"}

\* e is the put of one job's record (a job upsert)
IsUpsert(e) ==
    /\ e.event_type = "put"
    /\ \E j \in JobKeys : e.path = JobPath(j)
    /\ e.kind = "dict"

\* C1: for every job id, at most one download_and_print thread is active at
\* any instant, whatever upserts are delivered (duplicates included).
C1_AtMostOneWorker ==
    \A j \in JobKeys : Cardinality(ActiveFor(j)) <= 1

\* C2: while a worker for job j is active, a further delivery of the pending
\* upsert for j issues no second 'processing' write for j (one write-back
\* sequence, not two).
C2_OneWriteSequence ==
    [][\A j \in JobKeys :
          ActiveFor(j) # {} => ProcessingWrites(writes'[j]) = ProcessingWrites(writes[j])]_vars

\* a step of the engine alone: a worker step, or the delivery of an event the
\* source has sent before (no producer changes a record in it)
EngineStep == delivered' = delivered \/ Redeliver

\* C3: the status of a job at the source is monotonic: once it is terminal
\* (completed, failed or canceled) no write of the engine changes it, neither
\* back to 'processing' or 'pending' nor to another terminal status.
C3_MonotonicStatus ==
    [][\A j \in JobKeys :
          (EngineStep /\ Status(source[j]) \in Terminal /\ writes'[j] # writes[j])
             => Status(source'[j]) = Status(source[j])]_vars

\* C4: a job upsert whose record status is not 'pending' is ignored: the
\* delivery starts no worker, writes nothing to the source, and leaves the
\* workers as they were.
C4_NonPendingIgnored ==
    [][(delivered' = delivered + 1 /\ IsUpsert(event')
          /\ Status(event'.data) # "pending")
        => /\ workers' = workers
           /\ writes' = writes
           /\ jobs' = jobs
           /\ propagated' = propagated
           /\ \A j \in JobKeys :
                 source'[j] \in {source[j], event'.data}]_vars

\* C4 witness: an upsert with status 'processing' has been delivered and no
\* worker exists.
C4_Witness ==
    /\ delivered = 1
    /\ IsUpsert(event)
    /\ Status(event.data) = "processing"
    /\ workers = <<>>

\* C5: a worker whose download succeeded and whose print_pdf returned True
\* ends having written a record with status 'completed' and a timestamp.
C5_CompletedWithTimestamp ==
    \A i \in DOMAIN workers :
        (workers[i].pc = "done" /\ workers[i].success = "True")
           => /\ Status(workers[i].wrote) = "completed"
              /\ "timestamp" \in DOMAIN workers[i].wrote

\* C6: a worker whose download succeeded and whose print_pdf returned False
\* ends having written the status 'failed', a member of the status enum.
C6_PrintFailureFailed ==
    \A i \in DOMAIN workers :
        (workers[i].pc = "done" /\ workers[i].success = "False")
           => /\ Status(workers[i].wrote) = "failed"
              /\ Status(workers[i].wrote) \in StatusEnum

\* C7: a worker whose download raised ends having written status 'failed'
\* with the error text, has not called print_pdf, and its job id is not in
\* the registry.
C7_FetchFailureFailed ==
    \A i \in DOMAIN workers :
        (workers[i].pc = "done" /\ workers[i].e = "timeout")
           => /\ Status(workers[i].wrote) = "failed"
              /\ Get(workers[i].wrote, "error", None) = "timeout"
              /\ ~workers[i].printed
              /\ workers[i].job_key \notin DOMAIN jobs

\* C8: the registry holds exactly the job ids that have an active worker.
C8_RegistryIsActiveSet ==
    DOMAIN jobs = { j \in JobKeys : ActiveFor(j) # {} }

\* C9: no exception leaves the listener callback or a worker thread.
C9_NothingPropagates ==
    propagated = {}

\* p <= q for two fractions with positive denominators
FracLeq(p, q) == p[1] * q[2] <= q[1] * p[2]

\* the callback values never decrease
Monotone(seq) ==
    \A k \in 1..(Len(seq) - 1) : FracLeq(seq[k], seq[k + 1])

\* the fraction is exactly 1.0
IsOne(p) == p[1] = p[2]

\* the fetch has returned and its last callback value was 1.0
EndsAtOne == progress # <<>> /\ IsOne(progress[Len(progress)])

\* C10 as stated: with content-length > 0 the callback values never decrease
\* and the last one is exactly 1.0 when download_file returns.
C10_ProgressEndsAtOne ==
    total_size > 0 =>
        /\ Monotone(progress)
        /\ fetch_pc = "done" => EndsAtOne

\* C10 amended: with content-length > 0 the callback values never decrease,
\* and the last one is exactly 1.0 when download_file returns having received
\* exactly content-length bytes.
C10_ProgressEndsAtOneWhenComplete ==
    total_size > 0 =>
        /\ Monotone(progress)
        /\ (fetch_pc = "done" /\ downloaded = total_size) => EndsAtOne
        /\ (fetch_pc = "done" /\ downloaded # total_size) => ~EndsAtOne

\* C10 witness: a body of MaxBytes bytes declared and received in chunks of
\* one byte (the 1000-byte, 4-chunk example scaled down).
C10_Witness ==
    /\ fetch_pc = "done"
    /\ total_size = MaxBytes
    /\ Len(progress) = MaxBytes
    /\ \A k \in 1..MaxBytes : progress[k] = <<k, MaxBytes>>

\* the fraction lies in [0, 1]
InUnitRange(p) == 0 <= p[1] /\ p[1] <= p[2]

\* C11: every value passed to the progress callback lies in [0, 1], for every
\* declared content-length > 0 and every sequence of chunks received.
C11_ProgressInUnitRange ==
    \A k \in DOMAIN progress : InUnitRange(progress[k])

\* the dispatch has returned after handing the job to conn.printFile
Submitted == print_pc = "returned" /\ submitted

\* the option values the print subsystem documents for a recognized value
ColorModelOf(v) == IF Lower(v) = "color" THEN "RGB" ELSE "Gray"
OrientationOf(v) == IF Lower(v) = "portrait" THEN "3" ELSE "4"

\* the job record gives key k a recognized value
RecognizedColor(rec) ==
    "colorMode" \in DOMAIN rec /\ Lower(rec["colorMode"]) \in {"color", "grayscale"}
RecognizedOrientation(rec) ==
    "orientation" \in DOMAIN rec /\ Lower(rec["orientation"]) \in {"portrait", "landscape"}
RecognizedPaper(rec) ==
    "paperSize" \in DOMAIN rec /\ rec["paperSize"] # ""

\* C12: each recognized key of the job (colorMode, orientation, paperSize,
\* copies) is reflected in the options handed to the print subsystem; for
\* grayscale / landscape / A4 / 2 copies none of the four is omitted.
C12_AllOptionsMapped ==
    Submitted =>
        /\ RecognizedColor(job_in) =>
              Get(options, "ColorModel", None) = ColorModelOf(job_in["colorMode"])
        /\ RecognizedOrientation(job_in) =>
              Get(options, "orientation-requested", None)
                 = OrientationOf(job_in["orientation"])
        /\ RecognizedPaper(job_in) =>
              Get(options, "media", None) = job_in["paperSize"]
        /\ "copies" \in DOMAIN job_in =>
              Get(options, "copies", None) = job_in["copies"]


\* C13 as stated: for a job record in which colorMode, orientation or
\* paperSize is absent or has an unrecognized value, no corresponding option
\* is handed to the print subsystem.
C13_NoOptionForAbsentKey ==
    Submitted =>
        /\ ~RecognizedColor(job_in) => "ColorModel" \notin DOMAIN options
        /\ ~RecognizedOrientation(job_in) =>
              "orientation-requested" \notin DOMAIN options
        /\ ~RecognizedPaper(job_in) => "media" \notin DOMAIN options

\* C13 amended: an absent key is given the worker's own default ('color',
\* 'portrait', 'A4') and the option for that default is handed over; a key
\* that is present with an unrecognized colorMode or orientation, or with an
\* empty paperSize, yields no corresponding option.
C13_DefaultsForAbsentKey ==
    Submitted =>
        /\ "colorMode" \notin DOMAIN job_in =>
              Get(options, "ColorModel", None) = "RGB"
        /\ ("colorMode" \in DOMAIN job_in /\ ~RecognizedColor(job_in)) =>
              "ColorModel" \notin DOMAIN options
        /\ "orientation" \notin DOMAIN job_in =>
              Get(options, "orientation-requested", None) = "3"
        /\ ("orientation" \in DOMAIN job_in /\ ~RecognizedOrientation(job_in)) =>
              "orientation-requested" \notin DOMAIN options
        /\ "paperSize" \notin DOMAIN job_in =>
              Get(options, "media", None) = "A4"
        /\ ("paperSize" \in DOMAIN job_in /\ ~RecognizedPaper(job_in)) =>
              "media" \notin DOMAIN options

\* C13 witness: a job record without option keys has been handed to
\* conn.printFile with the three options of the worker's defaults.
C13_Witness ==
    /\ Submitted
    /\ DOMAIN job_in = {"printer"}
    /\ DOMAIN options = {"ColorModel", "orientation-requested", "media"}

\* C14: print_pdf always returns a boolean and never raises, and returns True
\* only if conn.printFile was called.
C14_DispatchReturnsBoolean ==
    print_pc = "returned" =>
        /\ print_result \in {"True", "False"}
        /\ print_result = "True" => submitted


\* what a session consists of: the stored user id, the connection status and
\* printer list at the source, the saved token, the job listener
Session == <<user_id, connected, printers_src, token_file, listener, subs>>

\* the connect thread i has found no device for its token
Rejected(i) == i \in DOMAIN connects /\ connects[i].pc = "invalid"

\* C15: a connect thread whose token belongs to no device takes one step
\* only, the one in which its validation ends without a device; that step
\* changes nothing of the session (stored user id, connection status, printer
\* list, saved token, listener, subscriptions)
C15_InvalidTokenNoSession ==
    [][\A i \in DOMAIN connects :
          (connects[i].token \notin Registered /\ connects'[i] # connects[i]) =>
              /\ connects[i].pc = "lookup"
              /\ connects'[i].pc \in {"invalid", "failed"}
              /\ UNCHANGED Session
      ]_vars

\* C15 witness: a thread has been rejected for an unknown token while the
\* session another thread established with a registered token stands
C15_Witness ==
    \E i \in DOMAIN connects :
        /\ Rejected(i)
        /\ connects[i].token \notin Registered
        /\ user_id \in Registered
        /\ token_file = user_id
        /\ connected = "True"
        /\ subs = 1


\* C19: whatever connect threads have run and however their steps
\* interleaved, at most one job listener subscription is open
C19_AtMostOneSubscription == subs <= 1


\* a payload only download_and_print writes: the result of print_pdf, or the
\* error of a download or a dispatch that raised
WorkerResult(p) ==
    \/ p = CompletedPayload
    \/ p = PrintFailedPayload
    \/ p \in {ErrorPayload("timeout"), ErrorPayload("cups")}

\* number of payloads among the first k of wr that satisfy the test
ProcessingUpTo(wr, k) ==
    Cardinality({ n \in 1..k : wr[n] = ProcessingPayload })
ResultsUpTo(wr, k) ==
    Cardinality({ n \in 1..k : WorkerResult(wr[n]) })

\* C16: every worker thread was started after a write of 'processing' of its
\* own for its job (the job has at least as many 'processing' writes as
\* threads), and in the order of the writes to a job every result a worker
\* wrote comes after the 'processing' write that preceded that worker's start
C16_ProcessingBeforeWorker ==
    \A j \in JobKeys :
        /\ Cardinality({ i \in DOMAIN workers : workers[i].job_key = j })
              <= ProcessingWrites(writes[j])
        /\ \A k \in 1..Len(writes[j]) :
              ResultsUpTo(writes[j], k) <= ProcessingUpTo(writes[j], k)

\* C16 witness: a job whose writes are 'processing' and then the result of
\* the worker that was started for it
C16_Witness ==
    \E j \in JobKeys, i \in DOMAIN workers :
        /\ workers[i].job_key = j
        /\ workers[i].pc = "done"
        /\ Len(writes[j]) = 2
        /\ writes[j][1] = ProcessingPayload
        /\ writes[j][2] = workers[i].wrote
        /\ WorkerResult(workers[i].wrote)


\* C18: a worker for which print_pdf returned True has written no failure
\* status ('failed' or 'error')
C18_PrintedNeverFailed ==
    \A i \in DOMAIN workers :
        workers[i].success = "True" =>
            Status(workers[i].wrote) \notin {"failed", "error"}


\* number of payloads in wr whose status is one of sts
StatusWrites(wr, sts) == Cardinality({ k \in DOMAIN wr : wr[k].status \in sts })

\* C17: when source writes succeed and worker threads are scheduled fairly,
\* every write of 'processing' for a job is eventually followed by a write of
\* a terminal status, 'completed' or 'failed', for that job: the n-th
\* 'processing' write leads to the n-th terminal write
C17_ProcessingLeadsToTerminal ==
    \A j \in JobKeys, n \in 1..MaxDeliveries :
        (ProcessingWrites(writes[j]) >= n)
            ~> (StatusWrites(writes[j], {"completed", "failed"}) >= n)

\* the same with the status the code writes for a failure, 'error', counted
\* as terminal and the error process_job writes for a job card it could not
\* build, which follows no 'processing' write, left out
SettledWrites(wr) ==
    Cardinality({ k \in DOMAIN wr : /\ wr[k].status \in {"completed", "error"}
                                    /\ wr[k] # ErrorPayload("ui") })
ProcessingLeadsToCompletedOrError ==
    \A j \in JobKeys, n \in 1..MaxDeliveries :
        (ProcessingWrites(writes[j]) >= n) ~> (SettledWrites(writes[j]) >= n)


\* the engine has taken up job j: it wrote a status for it, started a thread
\* for it, or process_job raised out of the handler
TakenUp(j) ==
    \/ writes[j] # <<>>
    \/ \E i \in DOMAIN workers : workers[i].job_key = j
    \/ "on_job_added" \in propagated

\* C20: a job that is 'pending' in the collection while a listener is
\* subscribed is eventually claimed by the engine (or is no longer pending),
\* whether it was stored before the subscription started, was put as a whole
\* record, or became pending by an update of its status field
C20_PendingEventuallyClaimed ==
    \A j \in JobKeys :
        (subs > 0 /\ Status(source[j]) = "pending")
            ~> (TakenUp(j) \/ Status(source[j]) # "pending")

====
